---------------------------- MODULE Spec2Model ----------------------------
(***************************************************************************)
(* A model of src/organizer.py (Smart Mac Organizer): the per-file         *)
(* pipeline of SmartOrganizer.process_file (ignore rules, content          *)
(* extraction, backend decision, category resolution, filename             *)
(* sanitization, dry-run) and the rename -> mkdir -> copy -> tag -> unlink  *)
(* sequence of SmartOrganizer._execute_local_first_strategy, run by main   *)
(* over a batch of paths against a small file system.                      *)
(*                                                                         *)
(* Text is modelled as a sequence of characters, a character being a       *)
(* one-token string.  The accented letters are written in ASCII: "e+" is   *)
(* U+00E9 (e with acute), "E+" is U+00C9 (E with acute), "u+" is U+00FA    *)
(* and "U+" is U+00DA.  A directory and a file name are both texts; a path *)
(* is the pair <<directory, name>>.                                        *)
(***************************************************************************)
EXTENDS Integers, Sequences, FiniteSets, TLC

VARIABLES
    files,          \* the file system: path -> [id, full, tag]
    files0,         \* the file system when main started (history)
    dirs,           \* the directories that exist
    categories,     \* self.categories: sequence of [key, path, tag]
    args,           \* args.files
    dry_run,        \* args.dry_run
    i,              \* position of main's loop in args
    handed,         \* number of paths handed to process_file (history)
    pc,             \* position of the program
    filepath,       \* process_file's filepath
    response,       \* what the backend answered for the current file
    decision,       \* process_file's decision
    category,       \* process_file's category
    new_name,       \* process_file's new_name
    local_renamed,  \* _execute_local_first_strategy's local_renamed
    final_cloud_path, \* _execute_local_first_strategy's final_cloud_path
    outcome,        \* how the last process_file call ended (history)
    ret,            \* what _execute_local_first_strategy returned last
    now,            \* int(time.time())
    score_text,     \* score_domain's text
    domain,         \* score_domain's domain
    score           \* what score_domain returned

vars == <<files, files0, dirs, categories, args, dry_run, i, handed, pc,
          filepath, response, decision, category, new_name, local_renamed,
          final_cloud_path, outcome, ret, now, score_text,
          domain, score>>

---------------------------------------------------------------------------
(* Bounds of the model. *)

MaxBatch == 2
MaxTime == 2
MaxRawLen == 3
MaxOrigLen == 3
MaxTokenLen == 5
MaxDirLen == 4

MaxStemLen == 2

---------------------------------------------------------------------------
(* Characters and text. *)

LowerSeq ==
    <<"a","b","c","d","e","f","g","h","i","j","k","l","m",
      "n","o","p","q","r","s","t","u","v","w","x","y","z">>

UpperSeq ==
    <<"A","B","C","D","E","F","G","H","I","J","K","L","M",
      "N","O","P","Q","R","S","T","U","V","W","X","Y","Z">>

DigitSeq == <<"0","1","2","3","4","5","6","7","8","9">>

Range(s) == {s[k] : k \in 1..Len(s)}

\* str.lower() on one character
Lower(c) ==
    IF c \in Range(UpperSeq)
    THEN LowerSeq[CHOOSE k \in 1..Len(UpperSeq) : UpperSeq[k] = c]
    ELSE IF c = "E+" THEN "e+"
    ELSE IF c = "U+" THEN "u+"
    ELSE c

LowerStr(s) == [k \in 1..Len(s) |-> Lower(s[k])]

\* unicodedata.normalize("NFD", c) with the combining marks (category Mn)
\* removed: the base letter of a precomposed letter
Unaccent(c) ==
    IF c = "e+" THEN "e"
    ELSE IF c = "E+" THEN "E"
    ELSE IF c = "u+" THEN "u"
    ELSE IF c = "U+" THEN "U"
    ELSE c

IsSpace(c) == c = " "

RECURSIVE LStrip(_)
LStrip(s) ==
    IF s # <<>> /\ IsSpace(Head(s)) THEN LStrip(Tail(s)) ELSE s

RECURSIVE RStrip(_)
RStrip(s) ==
    IF s # <<>> /\ IsSpace(s[Len(s)])
    THEN RStrip(SubSeq(s, 1, Len(s) - 1))
    ELSE s

\* str.strip()
Strip(s) == RStrip(LStrip(s))

\* Python's `sub in s` on strings
Contains(s, sub) ==
    \E k \in 0..(Len(s) - Len(sub)) : SubSeq(s, k + 1, k + Len(sub)) = sub

StartsWith(s, p) == Len(p) <= Len(s) /\ SubSeq(s, 1, Len(p)) = p

EndsWith(s, p) ==
    Len(p) <= Len(s) /\ SubSeq(s, Len(s) - Len(p) + 1, Len(s)) = p

\* the characters of s that satisfy Keep, in order
RECURSIVE FilterChars(_, _)
FilterChars(s, keep) ==
    IF s = <<>> THEN <<>>
    ELSE IF Head(s) \in keep
         THEN <<Head(s)>> \o FilterChars(Tail(s), keep)
         ELSE FilterChars(Tail(s), keep)

\* all texts over alphabet of length at most n
TextsUpTo(alphabet, n) == UNION {[1..k -> alphabet] : k \in 0..n}

\* str(n) for a natural number
RECURSIVE IntToStr(_)
IntToStr(n) ==
    IF n < 10 THEN <<DigitSeq[n + 1]>>
    ELSE IntToStr(n \div 10) \o <<DigitSeq[(n % 10) + 1]>>

---------------------------------------------------------------------------
(* pathlib: name, suffix, stem, str. *)

\* str.rfind(".") + 1: the last position of a dot, 0 when there is none
RFindDot(name) ==
    IF \E k \in 1..Len(name) : name[k] = "."
    THEN CHOOSE k \in 1..Len(name) :
            name[k] = "." /\ \A m \in (k + 1)..Len(name) : name[m] # "."
    ELSE 0

\* PurePath.suffix
Suffix(name) ==
    LET d == RFindDot(name)
    IN  IF 1 < d /\ d < Len(name) THEN SubSeq(name, d, Len(name)) ELSE <<>>

\* PurePath.stem
Stem(name) ==
    LET d == RFindDot(name)
    IN  IF 1 < d /\ d < Len(name) THEN SubSeq(name, 1, d - 1) ELSE name

\* str(path) of the path <<dir, name>>
PathStr(p) == p[1] \o <<"/">> \o p[2]

---------------------------------------------------------------------------
(* SmartOrganizer helpers. *)

\* SmartOrganizer._normalize_string
NormalizeString(text) ==
    IF text = <<>> THEN <<>>
    ELSE LET t == Strip(LowerStr(text))
         IN  [k \in 1..Len(t) |-> Unaccent(t[k])]

CatchAll == <<"o","u","t","r","o","s">>

\* the first of a set of positions of valid_keys: the key at which a
\* `for key in valid_keys: if ...: return key` returns
First(positions) == CHOOSE k \in positions : \A m \in positions : k <= m

\* the substring test of the third tier: the raw key against the
\* normalized token
FuzzyMatch(normalized_ai, key) ==
    (Contains(key, normalized_ai) \/ Contains(normalized_ai, key))
    /\ Len(normalized_ai) > 4

\* SmartOrganizer._resolve_category_key, on a string token
ResolveCategoryKey(ai_output, valid_keys) ==
    IF ai_output \in Range(valid_keys) THEN ai_output
    ELSE LET normalized_ai == NormalizeString(ai_output)
             tier2 == {k \in 1..Len(valid_keys) :
                         NormalizeString(valid_keys[k]) = normalized_ai}
             tier3 == {k \in 1..Len(valid_keys) :
                         FuzzyMatch(normalized_ai, valid_keys[k])}
         IN  IF tier2 # {} THEN valid_keys[First(tier2)]
             ELSE IF tier3 # {} THEN valid_keys[First(tier3)]
             ELSE CatchAll

\* the character class [a-zA-Z0-9_\-\.] of process_file's re.sub
AllowedChars ==
    Range(LowerSeq) \cup Range(UpperSeq) \cup Range(DigitSeq) \cup {"_", "-", "."}

Quotes == {"'", "\""}

\* process_file's filename sanitization: raw_name is the proposed name,
\* name the name of the original file
SanitizeName(raw_name, name) ==
    LET unquoted == FilterChars(raw_name, Range(raw_name) \ Quotes)
        cleaned == FilterChars(unquoted, AllowedChars)
    IN  IF EndsWith(LowerStr(cleaned), LowerStr(Suffix(name)))
        THEN cleaned
        ELSE cleaned \o Suffix(name)

\* process_file's residence test: str(data["path"]) in str(filepath.parent)
\* for some category
InCategoryDir(dir, cats) ==
    \E k \in 1..Len(cats) : Contains(dir, cats[k].path)

---------------------------------------------------------------------------
(* The file system. *)

\* the content of a file: whose bytes it holds, whether all of them, and the
\* tag put on it
Content(id, full) == [id |-> id, full |-> full, tag |-> "none"]

Exists(fs, p) == p \in DOMAIN fs

WriteFile(fs, p, c) ==
    [q \in DOMAIN fs \cup {p} |-> IF q = p THEN c ELSE fs[q]]

\* os.unlink / Path.unlink
RemoveFile(fs, p) == [q \in DOMAIN fs \ {p} |-> fs[q]]

\* os.rename on POSIX: an existing file at dst is replaced silently
RenameFile(fs, src, dst) ==
    IF src = dst THEN fs ELSE WriteFile(RemoveFile(fs, src), dst, fs[src])

Dir(p) == p[1]

Name(p) == p[2]

None == <<>>

---------------------------------------------------------------------------
(* The configuration and the inputs of the model. *)

SrcDir == <<"/","d">>

TmpDir == <<"/","t","m","p">>

FiscalDir == <<"/","c">>

OutrosDir == <<"/","o">>

SubDir == <<"/","d","/","s","u","b">>

Fiscal == <<"f","i","s","c","a","l">>

\* two catalogs: one with the catch-all category, one without it
FullCatalog ==
    << [key |-> Fiscal, path |-> FiscalDir, tag |-> "Fiscal"],
       [key |-> CatchAll, path |-> OutrosDir, tag |-> "none"] >>

CatalogWithoutCatchAll ==
    << [key |-> Fiscal, path |-> FiscalDir, tag |-> "Fiscal"] >>

\* _load_config's defaults for ignore.extensions and ignore.prefixes
IgnoreExtensions ==
    { <<".","d","o","w","n","l","o","a","d">>,
      <<".","c","r","d","o","w","n","l","o","a","d">>,
      <<".","t","m","p">>, <<".","p","a","r","t">>, <<".","l","o","c","k">> }

IgnorePrefixes == { <<".">>, <<"~","$">> }

ImageExtensions ==
    { <<".","j","p","g">>, <<".","j","p","e","g">>, <<".","p","n","g">>,
      <<".","h","e","i","c">>, <<".","w","e","b","p">> }

FileA == <<SrcDir, <<"a",".","t","x","t">>>>

FileP == <<TmpDir, <<"p",".","p","n","g">>>>

FileK == <<FiscalDir, <<"k",".","t","x","t">>>>

FileTmp == <<SrcDir, <<"x",".","t","m","p">>>>

FileHidden == <<SrcDir, <<".","h">>>>

FileSub == <<SrcDir, <<"s","u","b">>>>

\* the paths a batch is drawn from; a path that is twice in a batch is
\* missing the second time when the first disposition renamed it
Candidates == {FileA, FileP, FileK, FileTmp, FileHidden, FileSub}

NewName == <<"n",".","t","x","t">>

\* files that may be there before the run, under the names a disposition
\* may choose
OtherLocal == <<SrcDir, NewName>>

OtherLocalStamped == <<SrcDir, <<"n","_","1",".","t","x","t">>>>

OtherDest == <<FiscalDir, NewName>>

BaseFiles ==
    (FileA :> Content("a", TRUE)) @@ (FileP :> Content("p", TRUE))
    @@ (FileK :> Content("k", TRUE)) @@ (FileTmp :> Content("x", TRUE))
    @@ (FileHidden :> Content("h", TRUE))

InitialFileSystems ==
    { BaseFiles,
      WriteFile(BaseFiles, OtherDest, Content("otherDest", TRUE)),
      WriteFile(BaseFiles, OtherLocal, Content("otherLocal", TRUE)),
      WriteFile(WriteFile(BaseFiles, OtherLocal, Content("otherLocal", TRUE)),
                OtherLocalStamped, Content("otherStamped", TRUE)) }

InitialDirs == {SrcDir, TmpDir, FiscalDir, SubDir}

\* the file systems and catalogs a run starts from
Scenarios ==
    {<<fs, FullCatalog>> : fs \in InitialFileSystems}
    \cup {<<BaseFiles, CatalogWithoutCatchAll>>}

Batches == UNION {[1..n -> Candidates] : n \in 1..MaxBatch}

\* a field of the object the backend returned
Str(text) == [kind |-> "str", val |-> text]

Absent == [kind |-> "absent", val |-> None]

NonString == [kind |-> "nonstr", val |-> None]

\* what the backend may answer: ollama.chat raising, content json.loads
\* rejects, JSON that is no object, or an object
Responses ==
    { [kind |-> k, category |-> Absent, new_name |-> Absent] :
        k \in {"error", "unparseable", "nonobject"} }
    \cup
    { [kind |-> "object", category |-> c, new_name |-> n] :
        c \in {Str(Fiscal), Str(<<"z","z">>), NonString},
        n \in {Str(NewName), Absent, NonString} }

---------------------------------------------------------------------------
(* The program. *)

NoResponse == [kind |-> "none", category |-> Absent, new_name |-> Absent]

NoDecision == [kind |-> "none", category |-> Absent, new_name |-> Absent]

\* get_ai_decision's except branch
Fallback(path) ==
    [kind |-> "dict", category |-> Str(CatchAll), new_name |-> Str(Name(path))]

Keys(cats) == [k \in 1..Len(cats) |-> cats[k].key]

\* self.categories[key]
CategoryEntry(cats, key) ==
    cats[CHOOSE k \in 1..Len(cats) : cats[k].key = key]

\* score_domain's variables while it is not running
NoScore == [num |-> 0, den |-> 0]

NotScoring ==
    /\ score_text = <<>>
    /\ domain = None
    /\ score = NoScore

Init ==
    /\ \E sc \in Scenarios : files = sc[1] /\ categories = sc[2]
    /\ files0 = files
    /\ dirs = InitialDirs
    /\ args \in Batches
    /\ dry_run \in BOOLEAN
    /\ i = 1
    /\ handed = 0
    /\ pc = "main"
    /\ filepath = None
    /\ response = NoResponse
    /\ decision = NoDecision
    /\ category = None
    /\ new_name = None
    /\ local_renamed = None
    /\ final_cloud_path = None
    /\ outcome = "none"
    /\ ret = "none"
    /\ now = 1
    /\ NotScoring

inputs == <<files0, categories, args, dry_run>>

scoring == <<score_text, domain, score>>

\* process_file returns to main's loop; its locals go out of scope
Return(o, r) ==
    /\ pc' = "main"
    /\ i' = i + 1
    /\ outcome' = o
    /\ ret' = r
    /\ response' = NoResponse
    /\ decision' = NoDecision
    /\ category' = None

\* an exception leaves process_file and main: the interpreter exits
Raise ==
    /\ pc' = "crashed"
    /\ outcome' = "exception"
    /\ UNCHANGED <<i, ret, response, decision, category>>

\* the early returns of process_file
Ignored(path, fs, ds, cats) ==
    \/ ~Exists(fs, path) /\ PathStr(path) \notin ds
    \/ PathStr(path) \in ds
    \/ LowerStr(Suffix(Name(path))) \in {LowerStr(e) : e \in IgnoreExtensions}
    \/ \E p \in IgnorePrefixes : StartsWith(Name(path), p)
    \/ InCategoryDir(Dir(path), cats)

\* main's loop hands the next path to process_file, which applies its
\* ignore rules
ProcessFile ==
    /\ pc = "main"
    /\ i <= Len(args)
    /\ filepath' = args[i]
    /\ handed' = handed + 1
    /\ new_name' = None
    /\ local_renamed' = None
    /\ final_cloud_path' = None
    /\ IF Ignored(args[i], files, dirs, categories)
       THEN Return("skipped", "none")
       ELSE /\ pc' = "extract"
            /\ outcome' = "running"
            /\ ret' = "none"
            /\ UNCHANGED <<i, response, decision, category>>
    /\ UNCHANGED <<files, dirs, now, inputs, scoring>>

\* main's loop is over
MainReturns ==
    /\ pc = "main"
    /\ i > Len(args)
    /\ pc' = "done"
    /\ UNCHANGED <<files, dirs, now, inputs, scoring, i, handed, filepath, response,
                   decision, category, new_name, local_renamed,
                   final_cloud_path, outcome, ret>>

\* _enhance_image_for_ocr's temp_path
EnhancePath(path) ==
    <<TmpDir, <<"e","n","h","a","n","c","e","_">> \o Stem(Name(path))
              \o <<".","p","n","g">>>>

\* extract_content on an image: the file system after the enhancement
\* (which writes temp_path, or fails and hands back the file itself) and
\* the OCR (which may raise only through pytesseract), and whether a text
\* is returned
ExtractImage(fs, path, enhanced, ocr_raises) ==
    LET processed == IF enhanced THEN EnhancePath(path) ELSE path
        written == IF enhanced
                   THEN WriteFile(fs, processed, Content("enhanced", TRUE))
                   ELSE fs
    IN  IF ocr_raises
        THEN [fs |-> written, text |-> FALSE]
        ELSE [fs |-> IF StartsWith(PathStr(processed), TmpDir \o <<"/">>)
                     THEN RemoveFile(written, processed)
                     ELSE written,
              text |-> TRUE]

\* the page image of a scanned PDF, temp
OcrPath(path) ==
    <<TmpDir, <<"o","c","r","_">> \o Stem(Name(path)) \o <<".","p","n","g">>>>

\* what reading a PDF may come to: enough text on the first pages (or no
\* page at all), fitz failing, the page image failing to be saved (leaving
\* nothing or a part of it), or the page image going through the OCR
PdfOutcomes == {"text", "unreadable", "unsaved", "partly_saved", "scanned"}

\* extract_content on a PDF: the page image is written to temp, enhanced
\* (or handed back as it is), read by MacVisionOCR, which never raises, and
\* both paths are unlinked
ExtractPdf(fs, path, pdf, enhanced) ==
    LET temp == OcrPath(path)
        saved == WriteFile(fs, temp, Content("page", TRUE))
        processed == IF enhanced THEN EnhancePath(temp) ELSE temp
        written == IF enhanced
                   THEN WriteFile(saved, processed, Content("enhanced", TRUE))
                   ELSE saved
    IN  CASE pdf = "text" -> [fs |-> fs, text |-> TRUE]
          [] pdf = "unreadable" -> [fs |-> fs, text |-> FALSE]
          [] pdf = "unsaved" -> [fs |-> fs, text |-> FALSE]
          [] pdf = "partly_saved" ->
                [fs |-> WriteFile(fs, temp, Content("page", FALSE)),
                 text |-> FALSE]
          [] pdf = "scanned" ->
                [fs |-> RemoveFile(RemoveFile(written, processed), temp),
                 text |-> TRUE]

\* extract_content; a text file is read, and a failure to read it is not an
\* error; installers, cloud files and other extensions touch nothing
ExtractContent ==
    /\ pc = "extract"
    /\ \E enhanced \in BOOLEAN, ocr_raises \in BOOLEAN, pdf \in PdfOutcomes :
         LET ext == LowerStr(Suffix(Name(filepath)))
             r == IF ext = <<".","p","d","f">>
                  THEN ExtractPdf(files, filepath, pdf, enhanced)
                  ELSE IF ext \in ImageExtensions
                  THEN ExtractImage(files, filepath, enhanced, ocr_raises)
                  ELSE [fs |-> files, text |-> TRUE]
         IN  /\ files' = r.fs
             /\ IF r.text
                THEN /\ pc' = "decide"
                     /\ UNCHANGED <<i, outcome, ret, response, decision,
                                    category>>
                ELSE Return("unreadable", "none")
    /\ UNCHANGED <<dirs, now, inputs, scoring, handed, filepath, new_name,
                   local_renamed, final_cloud_path>>

\* get_ai_decision: the parsed content, or the fallback when ollama.chat or
\* json.loads raised
Decide(r, path) ==
    IF r.kind \in {"error", "unparseable"} THEN Fallback(path)
    ELSE IF r.kind = "nonobject" THEN [NoDecision EXCEPT !.kind = "nondict"]
    ELSE [kind |-> "dict", category |-> r.category, new_name |-> r.new_name]

GetAIDecision ==
    /\ pc = "decide"
    /\ \E r \in Responses :
         /\ response' = r
         /\ decision' = Decide(r, filepath)
    /\ pc' = "resolve"
    /\ UNCHANGED <<files, dirs, now, inputs, scoring, i, handed, filepath, category,
                   new_name, local_renamed, final_cloud_path, outcome, ret>>

\* decision.get(key, default) of a dict
Get(field, default) == IF field.kind = "absent" THEN Str(default) ELSE field

\* process_file from the decision to the dispatch: decision.get on a value
\* that is no dict, str methods on a value that is no str, and
\* self.categories[category] on a key the catalog lacks raise
ResolveAndDispatch ==
    /\ pc = "resolve"
    /\ LET raw_cat == Get(decision.category, CatchAll)
           raw_name == Get(decision.new_name, Name(filepath))
           cat == ResolveCategoryKey(raw_cat.val, Keys(categories))
       IN  IF \/ decision.kind # "dict"
              \/ raw_cat.kind # "str"
              \/ raw_name.kind # "str"
              \/ cat \notin Range(Keys(categories))
           THEN /\ Raise
                /\ UNCHANGED new_name
           ELSE /\ new_name' = SanitizeName(raw_name.val, Name(filepath))
                /\ IF dry_run
                   THEN Return("dryrun", "none")
                   ELSE /\ pc' = "rename"
                        /\ category' = cat
                        /\ UNCHANGED <<i, outcome, ret, response, decision>>
    /\ UNCHANGED <<files, dirs, now, inputs, scoring, handed, filepath, local_renamed,
                   final_cloud_path>>

---------------------------------------------------------------------------
(* _execute_local_first_strategy. *)

\* the category's directory, dest_dir
DestDir == CategoryEntry(categories, category).path

\* the path the local file is to get: new_name in its directory, or the
\* path it has when that is its name already
WantedPath(local_src, name) ==
    IF Name(local_src) = name THEN local_src ELSE <<Dir(local_src), name>>

\* the wanted path with the timestamp before the suffix
Stamped(wanted, timestamp) ==
    <<Dir(wanted),
      Stem(Name(wanted)) \o <<"_">> \o IntToStr(timestamp)
      \o Suffix(Name(wanted))>>

\* step 1: the clock is read when a file exists at the wanted path;
\* os.rename fails when the file is gone and may fail otherwise
LocalRename ==
    /\ pc = "rename"
    /\ LET wanted == WantedPath(filepath, new_name)
       IN  IF Exists(files, wanted)
           THEN \E t \in now..MaxTime :
                    /\ now' = t
                    /\ local_renamed' = Stamped(wanted, t)
           ELSE /\ now' = now
                /\ local_renamed' = wanted
    /\ \/ /\ Exists(files, filepath)
          /\ files' = RenameFile(files, filepath, local_renamed')
          /\ pc' = "mkdir"
          /\ UNCHANGED <<i, outcome, ret, response, decision, category>>
       \/ /\ files' = files
          /\ Return("rename_failed", "False")
    /\ UNCHANGED <<dirs, inputs, scoring, handed, filepath, new_name,
                   final_cloud_path>>

\* step 2: dest_dir.mkdir when the directory is not there
MakeDestDir ==
    /\ pc = "mkdir"
    /\ \/ /\ DestDir \in dirs
          /\ dirs' = dirs
          /\ pc' = "copy"
          /\ UNCHANGED <<i, outcome, ret, response, decision, category>>
       \/ /\ DestDir \notin dirs
          /\ dirs' = dirs \cup {DestDir}
          /\ pc' = "copy"
          /\ UNCHANGED <<i, outcome, ret, response, decision, category>>
       \/ /\ DestDir \notin dirs
          /\ dirs' = dirs
          /\ Return("mkdir_failed", "False")
    /\ UNCHANGED <<files, now, inputs, scoring, handed, filepath, new_name,
                   local_renamed, final_cloud_path>>

\* final_cloud_path
FinalCloudPath(dest_dir, renamed) == <<dest_dir, Name(renamed)>>

\* what shutil.copy2 may leave at dst when it raises: nothing new (the
\* file could not be opened), a part of the bytes (a write failed), or all
\* of them (copystat failed after the bytes were written)
CopyFailures(fs, src, dst) ==
    { fs,
      WriteFile(fs, dst, Content(fs[src].id, FALSE)),
      WriteFile(fs, dst, Content(fs[src].id, TRUE)) }

\* the except branch of the copy without its return: the sequence goes on
\* to the tagging and the cleanup
CopyFailedFallsThrough ==
    /\ pc' = "tag"
    /\ UNCHANGED <<i, outcome, ret, response, decision, category>>

\* the except branch of the copy: log and return False
CopyFailed ==
    Return("copy_failed", "False")

\* step 3: shutil.copy2 of the renamed file into dest_dir
CopyToDest ==
    /\ pc = "copy"
    /\ final_cloud_path' = FinalCloudPath(DestDir, local_renamed)
    /\ \/ /\ files' = WriteFile(files, final_cloud_path',
                                Content(files[local_renamed].id, TRUE))
          /\ pc' = "tag"
          /\ UNCHANGED <<i, outcome, ret, response, decision, category>>
       \/ /\ files' \in CopyFailures(files, local_renamed, final_cloud_path')
          /\ CopyFailed
    /\ UNCHANGED <<dirs, now, inputs, scoring, handed, filepath, new_name,
                   local_renamed>>

\* step 3 (tagging): the tag command is run when the category has a tag;
\* whether it puts the tag is not checked
Tagging ==
    /\ pc = "tag"
    /\ LET tag == CategoryEntry(categories, category).tag
       IN  \/ /\ tag # "none"
              /\ Exists(files, final_cloud_path)
              /\ files' = [files EXCEPT ![final_cloud_path].tag = tag]
           \/ files' = files
    /\ pc' = "cleanup"
    /\ UNCHANGED <<dirs, now, inputs, scoring, i, handed, filepath, response, decision,
                   category, new_name, local_renamed, final_cloud_path,
                   outcome, ret>>

\* step 4: os.unlink of the renamed local file; a failure is a warning
Cleanup ==
    /\ pc = "cleanup"
    /\ \/ /\ files' = RemoveFile(files, local_renamed)
          /\ Return("ok", "True")
       \/ /\ files' = files
          /\ Return("ok_not_cleaned", "True")
    /\ UNCHANGED <<dirs, now, inputs, scoring, handed, filepath, new_name,
                   local_renamed, final_cloud_path>>

Next ==
    \/ ProcessFile
    \/ MainReturns
    \/ ExtractContent
    \/ GetAIDecision
    \/ ResolveAndDispatch
    \/ LocalRename
    \/ MakeDestDir
    \/ CopyToDest
    \/ Tagging
    \/ Cleanup

Spec == Init /\ [][Next]_vars

---------------------------------------------------------------------------
(* Properties of the run of main over a batch (specification Spec). *)

\* the paths that hold the bytes of the file with this id
Copies(fs, id) == {p \in DOMAIN fs : fs[p].id = id}

\* the id of the file process_file was handed
CurrentId == files0[filepath].id

Handled == filepath \in DOMAIN files0

CategoryDirs == {categories[k].path : k \in 1..Len(categories)}

DispositionSteps == {"rename", "mkdir", "copy", "tag", "cleanup"}

\* C1: whenever the copy to the destination fails, the function returns
\* failure, the locally renamed file still exists, and no file exists at
\* the destination path dest_dir/<new name>.
C1_CopyFailureLeavesNoDestFile ==
    outcome = "copy_failed" =>
        /\ ret = "False"
        /\ Exists(files, local_renamed)
        /\ ~Exists(files, final_cloud_path)

\* the file is in one category directory under its sanitized name and not
\* in the source directory
Organized ==
    \E d \in CategoryDirs :
        /\ Copies(files, CurrentId) = {<<d, new_name>>}
        /\ files[<<d, new_name>>].full

\* the file is where it was, under its name, and nowhere else
Untouched ==
    /\ Copies(files, CurrentId) = {filepath}
    /\ files[filepath] = files0[filepath]

\* C2: after process_file returns for a file it did not ignore, the file is
\* either organized (in exactly one category directory under its sanitized
\* name, absent from the source directory) or untouched (in the source
\* directory under its original name, with no copy in a category
\* directory).  Stated for the files of the source directory /d: a file of
\* /tmp may be gone before the disposition starts, which is another matter
\* (extract_content's unlink of what it takes for its temporary file).
C2_OrganizedOrUntouched ==
    ( /\ pc = "main"
      /\ outcome \notin {"none", "skipped"}
      /\ Handled
      /\ Dir(filepath) = SrcDir )
    => (Organized \/ Untouched)

\* C3: in the disposition sequence the local file is deleted only after the
\* copy to the destination completed for that same file: a step after which
\* the source directory no longer holds the file's bytes is the cleanup
\* step, taken with the complete bytes at the destination path.
C3_DeleteOnlyAfterCopy ==
    [][ ( /\ pc \in DispositionSteps
          /\ \E p \in Copies(files, CurrentId) : Dir(p) = Dir(filepath)
          /\ ~\E p \in Copies(files', CurrentId) : Dir(p) = Dir(filepath) )
        => ( /\ pc = "cleanup"
             /\ Exists(files, final_cloud_path)
             /\ Dir(final_cloud_path) = DestDir
             /\ files[final_cloud_path].id = CurrentId
             /\ files[final_cloud_path].full
             /\ Exists(files', final_cloud_path)
             /\ files'[final_cloud_path] = files[final_cloud_path] ) ]_vars

\* C3 witness: a disposition went through the copy and then deleted the
\* local file
C3_Witness ==
    /\ pc = "main"
    /\ outcome = "ok"
    /\ ~Exists(files, local_renamed)
    /\ Exists(files, final_cloud_path)
    /\ files[final_cloud_path].id = CurrentId
    /\ files[final_cloud_path].full

\* C4: a failure while processing one file never stops the batch: when the
\* program ends, every path of the list was handed to process_file.
C4_BatchNeverStops ==
    pc \in {"done", "crashed"} => handed = Len(args)

\* C5: when the file's name already equals the target name the rename is
\* skipped: the file keeps its name and the sequence goes on under it.
C5_SameNameKeepsName ==
    (pc \in {"mkdir", "copy", "tag", "cleanup"} /\ Name(filepath) = new_name)
        => local_renamed = filepath

\* the backend raised, or returned something that is not one well-formed
\* object with a string category and a string filename (an object that
\* lacks a field is left out: decision.get's defaults stand in for it)
Malformed(r) ==
    \/ r.kind \in {"error", "unparseable", "nonobject"}
    \/ r.kind = "object" /\ "nonstr" \in {r.category.kind, r.new_name.kind}

\* C6: whenever the backend raises or returns malformed content, the
\* decision used for the file is the fallback {outros, original name} and
\* no exception leaves the per-file processing.
C6_MalformedResponseFallsBack ==
    Malformed(response) =>
        /\ pc # "crashed"
        /\ pc \in DispositionSteps =>
              /\ decision = Fallback(filepath)
              /\ category = CatchAll
              /\ new_name = SanitizeName(Name(filepath), Name(filepath))

\* C7: in dry-run mode process_file mutates nothing: every file that was
\* there is still there with its content and tag, no directory was created,
\* and no file appeared outside the directory of temporary files.
C7_DryRunMutatesNothing ==
    dry_run =>
        /\ \A p \in DOMAIN files0 : Exists(files, p) /\ files[p] = files0[p]
        /\ \A p \in DOMAIN files : Exists(files0, p) \/ Dir(p) = TmpDir
        /\ dirs = InitialDirs

\* C12: no step of the disposition overwrites, replaces or removes a file
\* other than the one being processed: every file that holds other bytes
\* is at its path with its content and tag after the step.
C12_OtherFilesKept ==
    [][(pc \in DispositionSteps) =>
         (\A p \in DOMAIN files :
             files[p].id # CurrentId =>
                 (Exists(files', p) /\ files'[p] = files[p]))]_vars

---------------------------------------------------------------------------
(* process_file's sanitization on bounded names (specification            *)
(* SpecSanitize): process_file stands after get_ai_decision, which         *)
(* returned an object with the proposed name raw, for a file of the source *)
(* directory that the ignore rules let through.                            *)

RawAlphabet == {"a", "B", ".", "'", "\"", " ", "#", "e+"}

OrigAlphabet == {"a", "B", ".", "#"}

OrigNames == TextsUpTo(OrigAlphabet, MaxOrigLen) \ {<<>>}

\* the state of process_file after get_ai_decision returned r for path
AfterDecision(path, fs, cats, dry, r) ==
    /\ files = fs
    /\ files0 = fs
    /\ dirs = InitialDirs
    /\ categories = cats
    /\ args = <<path>>
    /\ dry_run = dry
    /\ i = 1
    /\ handed = 1
    /\ pc = "resolve"
    /\ filepath = path
    /\ response = r
    /\ decision = Decide(r, path)
    /\ category = None
    /\ new_name = None
    /\ local_renamed = None
    /\ final_cloud_path = None
    /\ outcome = "running"
    /\ ret = "none"
    /\ now = 1
    /\ NotScoring

InitSanitize ==
    \E name \in OrigNames, raw \in TextsUpTo(RawAlphabet, MaxRawLen) :
        LET path == <<SrcDir, name>>
            fs == path :> Content("a", TRUE)
        IN  /\ ~Ignored(path, fs, InitialDirs, FullCatalog)
            /\ AfterDecision(path, fs, FullCatalog, FALSE,
                   [kind |-> "object", category |-> Absent,
                    new_name |-> Str(raw)])

SpecSanitize == InitSanitize /\ [][ResolveAndDispatch]_vars

\* C9: for every raw proposed name and every original file, the sanitized
\* target name contains only characters of [A-Za-z0-9_.-] and ends with the
\* original file's extension (compared without regard to case, as the
\* sanitization compares it).
C9_SanitizedNameIsSafe ==
    pc = "rename" =>
        /\ Range(new_name) \subseteq AllowedChars
        /\ EndsWith(LowerStr(new_name), LowerStr(Suffix(Name(filepath))))

---------------------------------------------------------------------------
(* _resolve_category_key on bounded tokens and catalogs (specification     *)
(* SpecResolve): process_file stands after get_ai_decision, which returned *)
(* an object with the category token.                                      *)

TokenAlphabet == {"a", "b", "A", " ", "e+"}

Key(text, path) == [key |-> text, path |-> path, tag |-> "none"]

ResolveCatalogs ==
    { << Key(<<"a","b">>, FiscalDir), Key(CatchAll, OutrosDir) >>,
      << Key(<<"A","b">>, FiscalDir), Key(CatchAll, OutrosDir) >>,
      << Key(<<"e+","b">>, FiscalDir), Key(CatchAll, OutrosDir) >>,
      << Key(<<"a","b","a","b","a","b">>, FiscalDir),
         Key(<<"b","a">>, SubDir), Key(CatchAll, OutrosDir) >> }

InitResolve ==
    \E cats \in ResolveCatalogs, token \in TextsUpTo(TokenAlphabet, MaxTokenLen) :
        AfterDecision(FileA, BaseFiles, cats, FALSE,
            [kind |-> "object", category |-> Str(token), new_name |-> Absent])

SpecResolve == InitResolve /\ [][ResolveAndDispatch]_vars

\* the token and the key, normalized, are substrings of one another
NormalizedSubstring(token, key) ==
    \/ Contains(NormalizeString(key), NormalizeString(token))
    \/ Contains(NormalizeString(token), NormalizeString(key))

\* the three tiers as stated: out is what the resolution of token over keys
\* may return
ThreeTier(token, keys, out) ==
    IF token \in keys THEN out = token
    ELSE IF \E k \in keys : NormalizeString(k) = NormalizeString(token)
    THEN out \in keys /\ NormalizeString(out) = NormalizeString(token)
    ELSE IF /\ Len(NormalizeString(token)) > 4
            /\ \E k \in keys : NormalizedSubstring(token, k)
    THEN out \in keys /\ NormalizedSubstring(token, out)
    ELSE out = CatchAll

\* C10: category resolution follows the three tiers for every token and
\* every catalog: an exact key; else a key with the same normalized form;
\* else, for a normalized token longer than 4 characters, a key whose
\* normalized form contains it or is contained in it; else "outros".
C10_ThreeTierResolution ==
    pc = "rename" =>
        ThreeTier(decision.category.val, Range(Keys(categories)), category)

---------------------------------------------------------------------------
(* process_file's residence guard on bounded directories (specification    *)
(* SpecGuard): main hands process_file one text file of a directory, with  *)
(* a catalog whose first category has a directory of the same kind.        *)

DirAlphabet == {"/", "c", "d"}

\* absolute directory paths as pathlib writes them
GuardDirs ==
    { d \in TextsUpTo(DirAlphabet, MaxDirLen) :
        /\ Len(d) >= 2
        /\ d[1] = "/"
        /\ d[Len(d)] # "/"
        /\ \A k \in 1..(Len(d) - 1) : ~(d[k] = "/" /\ d[k + 1] = "/") }

InitGuard ==
    \E dir \in GuardDirs, cat_dir \in GuardDirs :
        /\ filepath = None
        /\ files = <<dir, <<"a",".","t","x","t">>>> :> Content("a", TRUE)
        /\ files0 = files
        /\ dirs = {dir, cat_dir, TmpDir}
        /\ categories = << [key |-> Fiscal, path |-> cat_dir, tag |-> "Fiscal"],
                           [key |-> CatchAll, path |-> OutrosDir, tag |-> "none"] >>
        /\ args = << <<dir, <<"a",".","t","x","t">>>> >>
        /\ dry_run = FALSE
        /\ i = 1
        /\ handed = 0
        /\ pc = "main"
        /\ response = NoResponse
        /\ decision = NoDecision
        /\ category = None
        /\ new_name = None
        /\ local_renamed = None
        /\ final_cloud_path = None
        /\ outcome = "none"
        /\ ret = "none"
        /\ now = 1
        /\ NotScoring

SpecGuard == InitGuard /\ [][ProcessFile]_vars

\* path containment: dir is the directory cat_dir or a descendant of it
IsUnder(dir, cat_dir) == dir = cat_dir \/ StartsWith(dir, cat_dir \o <<"/">>)

UnderCategoryDir(path) == \E d \in CategoryDirs : IsUnder(Dir(path), d)

\* C8: the residence guard skips a file exactly when its directory is a
\* category directory or a descendant of one.
C8_SkipsExactlyUnderCategoryDir ==
    /\ (pc = "main" /\ outcome = "skipped") => UnderCategoryDir(filepath)
    /\ pc = "extract" => ~UnderCategoryDir(filepath)

---------------------------------------------------------------------------
(* extract_content on bounded inputs (specification SpecExtract):          *)
(* process_file stands before extract_content with one file that the       *)
(* ignore rules let through, of any kind of extension, in the source       *)
(* directory, in /tmp or in a directory under /tmp.                        *)

TmpSubDir == <<"/","t","m","p","/","s">>

ExtractDirs == {SrcDir, TmpDir, TmpSubDir}

ExtractExtensions ==
    { <<".","t","x","t">>, <<".","p","n","g">>, <<".","P","N","G">>,
      <<".","p","d","f">>, <<".","z","i","p">> }

ExtractInputs ==
    { <<dir, stem \o ext>> :
        dir \in ExtractDirs,
        stem \in TextsUpTo({"a", "b"}, MaxStemLen) \ {<<>>},
        ext \in ExtractExtensions }

InitExtract ==
    \E path \in ExtractInputs :
        /\ filepath = path
        /\ files = path :> Content("a", TRUE)
        /\ files0 = files
        /\ dirs = {SrcDir, TmpDir, TmpSubDir, FiscalDir}
        /\ categories = FullCatalog
        /\ args = <<path>>
        /\ dry_run \in BOOLEAN
        /\ i = 1
        /\ handed = 1
        /\ pc = "extract"
        /\ response = NoResponse
        /\ decision = NoDecision
        /\ category = None
        /\ new_name = None
        /\ local_renamed = None
        /\ final_cloud_path = None
        /\ outcome = "running"
        /\ ret = "none"
        /\ now = 1
        /\ NotScoring

SpecExtract == InitExtract /\ [][ExtractContent]_vars

\* C11: after extract_content returned, whatever the enhancement and the
\* OCR came to, the input file is still at its path with its content.
C11_ExtractionKeepsInput ==
    pc # "extract" =>
        /\ Exists(files, filepath)
        /\ files[filepath] = files0[filepath]

---------------------------------------------------------------------------
(* DomainScorer on the keywords of its tables (specification SpecScore):   *)
(* score_domain is called with a keyword of a domain, as the table writes  *)
(* it, as the text, and that domain.                                       *)

\* the static tables; an accented letter is written as its base letter
\* followed by + (acute, cedilla), ~ (tilde) or ^ (circumflex)
DOMAIN_KEYWORDS ==
    ("juridico" :> [
        primary |-> <<
            <<"p","r","o","c","o","n">>, <<"p","r","o","c","e","s","s","o">>,
            <<"j","u","i","z">>, <<"j","u","i+","z","a">>,
            <<"a","d","v","o","g","a","d","o">>,
            <<"a","d","v","o","g","a","d","a">>,
            <<"i","n","t","i","m","a","c+","a~","o">>,
            <<"a","c+","a~","o"," ","j","u","d","i","c","i","a","l">>,
            <<"s","e","n","t","e","n","c+","a">>,
            <<"a","c","o+","r","d","a~","o">>,
            <<"t","r","i","b","u","n","a","l">>,
            <<"c","o","n","t","r","a","t","o">>,
            <<"c","l","a+","u","s","u","l","a">>,
            <<"p","r","o","c","u","r","a","c+","a~","o">> >>,
        secondary |-> <<
            <<"c","o","n","s","u","m","i","d","o","r">>, <<"r","e+","u">>,
            <<"a","u","t","o","r">>,
            <<"r","e","c","l","a","m","a","n","t","e">>,
            <<"a","c","o","r","d","o">>,
            <<"n","o","t","i","f","i","c","a","c+","a~","o">>,
            <<"p","r","a","z","o"," ","d","e"," ","d","e","f","e","s","a">> >> ])
    @@ ("pessoal_saude" :> [
        primary |-> <<
            <<"e","x","a","m","e">>, <<"l","a","u","d","o">>,
            <<"h","e","m","o","g","r","a","m","a">>,
            <<"r","a","i","o"," ","x">>,
            <<"t","o","m","o","g","r","a","f","i","a">>,
            <<"u","l","t","r","a","s","s","o","m">>,
            <<"u","l","t","r","a","s","s","o","n","o","g","r","a","f","i","a">>,
            <<"c","o","n","s","u","l","t","a">>,
            <<"r","e","c","e","i","t","a"," ","m","e+","d","i","c","a">>,
            <<"p","r","e","s","c","r","i","c+","a~","o">>, <<"c","r","m">>,
            <<"a","t","e","s","t","a","d","o"," ","m","e+","d","i","c","o">> >>,
        secondary |-> <<
            <<"s","a","u+","d","e">>, <<"p","a","c","i","e","n","t","e">>,
            <<"l","a","b","o","r","a","t","o+","r","i","o">>,
            <<"c","l","i+","n","i","c","a">>,
            <<"h","o","s","p","i","t","a","l">>,
            <<"m","e+","d","i","c","o">>, <<"m","e+","d","i","c","a">>,
            <<"r","e","s","u","l","t","a","d","o"," ","d","e"," ","e","x","a","m","e">> >> ])
    @@ ("financeiro_pagamentos" :> [
        primary |-> <<
            <<"b","o","l","e","t","o">>, <<"f","a","t","u","r","a">>,
            <<"c","o","m","p","r","o","v","a","n","t","e">>,
            <<"p","a","g","a","m","e","n","t","o">>, <<"p","a","g","t","o">>,
            <<"p","i","x">>, <<"n","o","t","a"," ","f","i","s","c","a","l">>,
            <<"n","f","e">>, <<"n","f","-","e">>, <<"d","a","n","f","e">>,
            <<"r","e","c","i","b","o">> >>,
        secondary |-> <<
            <<"v","e","n","c","i","m","e","n","t","o">>,
            <<"d","a","t","a"," ","d","e"," ","v","e","n","c","i","m","e","n","t","o">>,
            <<"v","a","l","o","r">>,
            <<"c","o+","d","i","g","o"," ","d","e"," ","b","a","r","r","a","s">>,
            <<"b","a","n","c","o">>, <<"c","o","n","t","a">>,
            <<"a","g","e^","n","c","i","a">> >> ])
    @@ ("financeiro_fiscal" :> [
        primary |-> <<
            <<"i","m","p","o","s","t","o"," ","d","e"," ","r","e","n","d","a">>,
            <<"i","r","p","f">>, <<"d","a","r","f">>, <<"d","a","s">>,
            <<"g","u","i","a"," ","d","e"," ","r","e","c","o","l","h","i","m","e","n","t","o">>,
            <<"d","e","c","l","a","r","a","c+","a~","o">>,
            <<"c","a","r","n","e^"," ","l","e","a~","o">> >>,
        secondary |-> <<
            <<"r","e","c","e","i","t","a"," ","f","e","d","e","r","a","l">>,
            <<"c","o+","d","i","g","o"," ","d","e"," ","r","e","c","e","i","t","a">>,
            <<"e","x","e","r","c","i+","c","i","o">>,
            <<"a","n","o","-","c","a","l","e","n","d","a+","r","i","o">> >> ])
    @@ ("financeiro_invest" :> [
        primary |-> <<
            <<"e","x","t","r","a","t","o">>,
            <<"i","n","v","e","s","t","i","m","e","n","t","o">>,
            <<"t","e","s","o","u","r","o"," ","d","i","r","e","t","o">>,
            <<"c","d","b">>, <<"f","i","i">>,
            <<"f","u","n","d","o"," ","d","e"," ","i","n","v","e","s","t","i","m","e","n","t","o">>,
            <<"p","o","s","i","c+","a~","o"," ","c","o","n","s","o","l","i","d","a","d","a">> >>,
        secondary |-> <<
            <<"c","o","r","r","e","t","o","r","a">>,
            <<"b","r","o","k","e","r">>,
            <<"c","u","s","t","o+","d","i","a">>,
            <<"p","a","t","r","i","m","o^","n","i","o">> >> ])
    @@ ("carreira_geral" :> [
        primary |-> <<
            <<"c","u","r","r","i+","c","u","l","o">>, <<"c","v">>,
            <<"h","o","l","e","r","i","t","e">>,
            <<"c","o","n","t","r","a","c","h","e","q","u","e">>,
            <<"c","o","n","t","r","a","t","o"," ","d","e"," ","t","r","a","b","a","l","h","o">>,
            <<"a","d","m","i","s","s","a~","o">>,
            <<"d","e","m","i","s","s","a~","o">>,
            <<"f","o","l","h","a"," ","d","e"," ","p","a","g","a","m","e","n","t","o">> >>,
        secondary |-> <<
            <<"v","a","g","a">>,
            <<"p","r","o","c","e","s","s","o"," ","s","e","l","e","t","i","v","o">>,
            <<"r","e","c","r","u","t","a","m","e","n","t","o">>,
            <<"c","a","r","g","o">>, <<"f","u","n","c+","a~","o">> >> ])
    @@ ("profissional_tecnico" :> [
        primary |-> <<
            <<"a","r","q","u","i","t","e","t","u","r","a">>,
            <<"d","i","a","g","r","a","m","a">>,
            <<"r","o","a","d","m","a","p">>,
            <<"p","r","o","p","o","s","t","a"," ","t","e+","c","n","i","c","a">>,
            <<"d","o","c","u","m","e","n","t","a","c+","a~","o"," ","t","e+","c","n","i","c","a">>,
            <<"i","n","f","r","a","e","s","t","r","u","t","u","r","a">>,
            <<"d","e","p","l","o","y">>, <<"p","i","p","e","l","i","n","e">>,
            <<"e","s","p","e","c","i","f","i","c","a","c+","a~","o"," ","t","e+","c","n","i","c","a">>,
            <<"m","a","n","u","a","l"," ","t","e+","c","n","i","c","o">> >>,
        secondary |-> <<
            <<"a","p","i">>, <<"e","n","d","p","o","i","n","t">>,
            <<"s","e","r","v","i","d","o","r">>,
            <<"c","l","u","s","t","e","r">>,
            <<"d","a","s","h","b","o","a","r","d">>,
            <<"r","e","l","a","t","o+","r","i","o"," ","t","e+","c","n","i","c","o">>,
            <<"s","i","s","t","e","m","a">>,
            <<"p","l","a","t","a","f","o","r","m","a">>,
            <<"a","m","b","i","e","n","t","e">> >> ])
    @@ ("educacao_estudos" :> [
        primary |-> <<
            <<"a","p","o","s","t","i","l","a">>,
            <<"e","x","e","r","c","i+","c","i","o","s">>,
            <<"l","i","s","t","a"," ","d","e"," ","e","x","e","r","c","i+","c","i","o","s">>,
            <<"p","r","o","v","a">>, <<"s","i","m","u","l","a","d","o">>,
            <<"r","e","s","u","m","o">>,
            <<"c","o","n","t","e","u+","d","o"," ","p","r","o","g","r","a","m","a+","t","i","c","o">>,
            <<"a","u","l","a">>,
            <<"m","a","t","e","r","i","a","l"," ","d","e"," ","e","s","t","u","d","o">>,
            <<"a","v","a","l","i","a","c+","a~","o">> >>,
        secondary |-> <<
            <<"u","n","i","v","e","r","s","i","d","a","d","e">>,
            <<"f","a","c","u","l","d","a","d","e">>,
            <<"c","u","r","s","o"," ","o","n","l","i","n","e">>,
            <<"e","a","d">>, <<"e","-","l","e","a","r","n","i","n","g">>,
            <<"c","e","r","t","i","f","i","c","a","d","o"," ","d","e"," ","c","o","n","c","l","u","s","a~","o">> >> ])

\* the combining marks of the decomposed accented letters
Combining == {"acute", "tilde", "cedilla", "circumflex"}

\* unicodedata.normalize("NFKD", c): a precomposed letter becomes its base
\* letter followed by its combining mark
Nfkd(c) ==
    CASE c = "a+" -> <<"a", "acute">>
      [] c = "a~" -> <<"a", "tilde">>
      [] c = "c+" -> <<"c", "cedilla">>
      [] c = "e+" -> <<"e", "acute">>
      [] c = "e^" -> <<"e", "circumflex">>
      [] c = "i+" -> <<"i", "acute">>
      [] c = "o+" -> <<"o", "acute">>
      [] c = "o^" -> <<"o", "circumflex">>
      [] c = "u+" -> <<"u", "acute">>
      [] OTHER -> <<c>>

RECURSIVE NfkdStr(_)
NfkdStr(s) ==
    IF s = <<>> THEN <<>> ELSE Nfkd(Head(s)) \o NfkdStr(Tail(s))

\* DomainScorer._norm
Norm(t) ==
    IF t = <<>> THEN <<>>
    ELSE SelectSeq(NfkdStr(LowerStr(t)), LAMBDA c : c \notin Combining)

\* str.count: the occurrences of sub in s that do not overlap, from the
\* left
RECURSIVE Count(_, _)
Count(s, sub) ==
    IF sub = <<>> THEN Len(s) + 1
    ELSE IF Len(s) < Len(sub) THEN 0
    ELSE IF StartsWith(s, sub)
         THEN 1 + Count(SubSeq(s, Len(sub) + 1, Len(s)), sub)
         ELSE Count(Tail(s), sub)

\* len(t.split())
WordCount(t) ==
    Cardinality({k \in 1..Len(t) :
                    ~IsSpace(t[k]) /\ (k = 1 \/ IsSpace(t[k - 1]))})

\* the occurrences of the tokens in t, summed
RECURSIVE SumCounts(_, _)
SumCounts(tokens, t) ==
    IF tokens = <<>> THEN 0
    ELSE Count(t, Head(tokens)) + SumCounts(Tail(tokens), t)

Max(a, b) == IF a >= b THEN a ELSE b

\* DomainScorer.score_domain; the float score / (wc / 50.0) is the
\* fraction num / den
ScoreDomain(t0, dom) ==
    IF dom \notin DOMAIN DOMAIN_KEYWORDS \/ t0 = <<>>
    THEN [num |-> 0, den |-> 1]
    ELSE LET cfg == DOMAIN_KEYWORDS[dom]
             t == Norm(t0)
             sum == 3 * SumCounts(cfg.primary, t)
                    + SumCounts(cfg.secondary, t)
             wc == Max(WordCount(t), 10)
         IN  [num |-> 50 * sum, den |-> wc]

\* the keywords of a domain, primary and secondary
Keywords(dom) ==
    Range(DOMAIN_KEYWORDS[dom].primary)
    \cup Range(DOMAIN_KEYWORDS[dom].secondary)

InitScore ==
    \E dom \in DOMAIN DOMAIN_KEYWORDS :
        \E k \in Keywords(dom) :
            /\ score_text = k
            /\ domain = dom
            /\ score = NoScore
            /\ pc = "score"
            /\ files = BaseFiles
            /\ files0 = files
            /\ dirs = InitialDirs
            /\ categories = FullCatalog
            /\ args = <<>>
            /\ dry_run = FALSE
            /\ i = 1
            /\ handed = 0
            /\ filepath = None
            /\ response = NoResponse
            /\ decision = NoDecision
            /\ category = None
            /\ new_name = None
            /\ local_renamed = None
            /\ final_cloud_path = None
            /\ outcome = "none"
            /\ ret = "none"
            /\ now = 1

\* the call of score_domain
Score ==
    /\ pc = "score"
    /\ score' = ScoreDomain(score_text, domain)
    /\ pc' = "scored"
    /\ UNCHANGED <<files, dirs, now, inputs, score_text, domain, i, handed,
                   filepath, response, decision, category, new_name,
                   local_renamed, final_cloud_path, outcome, ret>>

SpecScore == InitScore /\ [][Score]_vars

\* C13: for every domain and every keyword of it, as the table writes it,
\* score_domain of the keyword and the domain is strictly positive.
C13_EveryKeywordScores ==
    pc = "scored" => score.num > 0 /\ score.den > 0

=============================================================================
